---- MODULE Spec2Model ----
(***************************************************************************)
(* Model of the nba-analytics front end: the shot chart (ShotChart,        *)
(* CourtDiagram, ZoneTable, key insight), the insight panel (InsightPanel) *)
(* and the overview renderers (Overview, RecentForm, StatBlock, StatCard,  *)
(* TrendBadge).                                                            *)
(*                                                                         *)
(* Percentages and diffs are counted in tenths of a percentage point       *)
(* (64.5% is 645), trend deltas in tenths.  An optional JavaScript number  *)
(* (null, undefined or a number) is a set: {} for null/undefined, {v} for  *)
(* the number v.                                                           *)
(***************************************************************************)
EXTENDS Integers, Sequences, FiniteSets

VARIABLES
    \* ShotChart component state
    scPlayer,       \* the player prop (NoPlayer or a player id)
    zones,          \* useState([]): the zone rows of the last resolved fetch
    shotLoading,    \* useState(false)
    view,           \* useState('court')
    shotFetches,    \* shot-chart fetches in flight (a bag: player -> count)
    shotOutcome,    \* how the last settled fetch ended: "none", "ok", "failed"
    shotUI,         \* what ShotChart renders from its state
    \* InsightPanel component state
    question,       \* useState('')
    insight,        \* useState(null)
    videos,         \* useState([])
    insightLoading, \* useState(false)
    error,          \* useState(null)
    asks,           \* calls of ask() that have not returned yet
    askCount,       \* number of calls of ask() so far
    \* Overview props and what it renders
    gameLogs,
    trends,
    ovUI,
    \* The season averages computed from gameLogs (Overview, App, Compare)
    avgUI,
    \* The database (schema.sql)
    rollingAverages,   \* rows of player_rolling_averages
    playerInsights,    \* rows of player_insights
    serial,            \* the SERIAL sequences of the two tables
    dbResult,          \* how the last INSERT ended
    \* InsightCache (the backend behind POST /insights)
    now,               \* the clock, in hours
    cache,             \* key -> the CachedInsight of the key, if any
    generating,        \* keys whose generation is in flight
    invocations,       \* key -> number of generator invocations so far
    calls,             \* the get_or_generate calls and how each ended
    \* Compare component state
    playerA,           \* useState(null)
    playerB,           \* useState(null)
    statsA,            \* useState(null)
    statsB,            \* useState(null)
    cmpInsight,        \* useState(null)
    loadingInsight,    \* useState(false)
    statsFetches,      \* loadStats calls awaiting their game logs
    insightFetches,    \* generateInsight calls awaiting POST /insights
    cmpOutcome,        \* how the last generateInsight ended: "none", "pending", "ok", "failed"
    \* Rolling averages: the endpoint and App's chart state
    store,             \* the game logs of the player in the GameLogStore
    rollResult,        \* the last response of the rolling-averages endpoint
    rollWindow,        \* App: useState(10)
    rolling,           \* App: useState([])
    rollFetches,       \* window-selector requests awaiting their response
    rollSettled,       \* the request whose answer rolling holds, if any
    appPlayer,         \* App: useState(null), the selected player
    appLoading,        \* App: useState(false)
    activeTab,         \* App: useState('overview')
    loadFetches,       \* loadPlayer calls awaiting their three responses
    loadSettled        \* the player whose game logs and trends are held, if any

shotVars    == <<scPlayer, zones, shotLoading, view, shotFetches, shotOutcome, shotUI>>
insightVars == <<question, insight, videos, insightLoading, error, asks, askCount>>
ovVars      == <<gameLogs, trends, ovUI>>
avgVars     == <<avgUI>>
dbVars      == <<rollingAverages, playerInsights, serial, dbResult>>
cacheVars   == <<now, cache, generating, invocations, calls>>
cmpVars     == <<playerA, playerB, statsA, statsB, cmpInsight, loadingInsight,
                 statsFetches, insightFetches, cmpOutcome>>
rollVars    == <<store, rollResult, rollWindow, rolling, rollFetches, rollSettled,
                 appPlayer, appLoading, activeTab, loadFetches, loadSettled>>
restVars    == <<avgVars, dbVars, cacheVars, cmpVars, rollVars>>
vars        == <<shotVars, insightVars, ovVars, restVars>>

----------------------------------------------------------------------------
\* Optional numbers and JavaScript truthiness

Null == {}
Num(v) == {v}
IsNull(x) == x = {}
Val(x) == CHOOSE v \in x : TRUE
\* !x is true for null, undefined and 0
Truthy(x) == x # {} /\ x # {0}

Range(s) == {s[i] : i \in 1..Len(s)}
Min(a, b) == IF a <= b THEN a ELSE b
Max(a, b) == IF a >= b THEN a ELSE b

\* Array.prototype.slice(start, end) with JavaScript's negative-index rule
JsIndex(k, n) == IF k < 0 THEN Max(n + k, 0) ELSE Min(k, n)
Slice(s, start, end) ==
    LET a == JsIndex(start, Len(s))
        b == JsIndex(end, Len(s))
    IN  IF b <= a THEN <<>> ELSE [i \in 1..(b - a) |-> s[a + i]]
SliceFrom(s, start) == Slice(s, start, Len(s))
\* [...s].reverse()
Reverse(s) == [i \in 1..Len(s) |-> s[Len(s) + 1 - i]]

----------------------------------------------------------------------------
\* Bounds of the model

MaxAttempts == 20      \* attempts of a zone in a one-zone response: 0..MaxAttempts
MaxShotFetches == 2    \* shot-chart fetches in flight at once
MaxAsks == 3           \* calls of ask() in one run of the insight panel
MaxGames == 22         \* games in a game-log response
DeltaMax == 2          \* trend deltas range over -DeltaMax..DeltaMax tenths

NoPlayer == 0
Players == {1, 2}

----------------------------------------------------------------------------
\* Shot zones (Compare.jsx, second half: ShotChart)

\* League average FG% by zone, in tenths of a percent
LEAGUE_AVG ==
    [z \in {"Restricted Area", "In The Paint (Non-RA)", "Mid-Range",
            "Left Corner 3", "Right Corner 3", "Above the Break 3", "Backcourt"} |->
        CASE z = "Restricted Area"       -> 645
          [] z = "In The Paint (Non-RA)" -> 402
          [] z = "Mid-Range"             -> 421
          [] z = "Left Corner 3"         -> 388
          [] z = "Right Corner 3"        -> 391
          [] z = "Above the Break 3"     -> 362
          [] z = "Backcourt"             -> 20]

ZoneNames == DOMAIN LEAGUE_AVG

\* LEAGUE_AVG[zone]: undefined for a key the table does not have
LeagueAvg(zone) == IF zone \in DOMAIN LEAGUE_AVG THEN Num(LEAGUE_AVG[zone]) ELSE Null

\* The zone percentage the shot-chart endpoint sends: makes/attempts*100 rounded
\* to one decimal, null when there are no attempts
ZonePct(attempts, makes) ==
    IF attempts = 0 THEN Null
    ELSE Num((2000 * makes + attempts) \div (2 * attempts))

ZoneRec(name, attempts, makes) ==
    [shot_zone_basic |-> name, attempts |-> attempts, makes |-> makes,
     pct |-> ZonePct(attempts, makes)]

\* function getDiff(pct, zone)
getDiff(pct, zone) ==
    LET avg == LeagueAvg(zone)
    IN  IF ~Truthy(avg) \/ ~Truthy(pct) THEN 0 ELSE Val(pct) - Val(avg)

\* function getColor(pct, zone): the colour triple, named by the legend's tier
getColor(pct, zone) ==
    IF ~Truthy(pct) THEN "nodata"
    ELSE LET diff == getDiff(pct, zone)
         IN  IF diff >= 80 THEN "elite"
             ELSE IF diff >= 30 THEN "above"
             ELSE IF diff >= -30 THEN "average"
             ELSE IF diff >= -80 THEN "below"
             ELSE "cold"

\* {z.pct ? z.pct + '%' : '—'}
PctText(pct) == IF Truthy(pct) THEN "pct" ELSE "dash"

\* ZoneTable: const diff = z.pct && avg ? (parseFloat(z.pct) - avg) : null
ZoneTableDiff(z) ==
    LET avg == LeagueAvg(z.shot_zone_basic)
    IN  IF Truthy(z.pct) /\ Truthy(avg) THEN Num(Val(z.pct) - Val(avg)) ELSE Null

\* zones.find(z => z.shot_zone_basic === name): the first match, or undefined
Find(zs, name) ==
    LET hits == {i \in 1..Len(zs) : zs[i].shot_zone_basic = name}
    IN  IF hits = {} THEN {}
        ELSE {zs[CHOOSE i \in hits : \A j \in hits : i <= j]}

zoneOrder ==
    <<"Restricted Area", "In The Paint (Non-RA)", "Mid-Range",
      "Left Corner 3", "Right Corner 3", "Above the Break 3">>

ZoneTableRow(z) ==
    [zone |-> z.shot_zone_basic, pct |-> z.pct, attempts |-> z.attempts,
     fg |-> PctText(z.pct), diff |-> ZoneTableDiff(z),
     tier |-> getColor(z.pct, z.shot_zone_basic)]

\* ZoneTable: the rows, in zoneOrder, of the zones the response has
ZoneTable(zs) ==
    LET present == SelectSeq(zoneOrder, LAMBDA name : Find(zs, name) # {})
    IN  [i \in 1..Len(present) |-> ZoneTableRow(Val(Find(zs, present[i])))]

\* CourtDiagram: zoneMap[name] is the last row of that name; getZone defaults
getZone(zs, name) ==
    LET hits == {i \in 1..Len(zs) : zs[i].shot_zone_basic = name}
    IN  IF hits = {} THEN [shot_zone_basic |-> name, pct |-> Null, attempts |-> 0, makes |-> 0]
        ELSE zs[CHOOSE i \in hits : \A j \in hits : i >= j]

CourtDiagram(zs) ==
    [name \in Range(zoneOrder) |->
        LET z == getZone(zs, name)
        IN  [pct |-> z.pct, attempts |-> z.attempts,
             text |-> PctText(z.pct), tier |-> getColor(z.pct, name)]]

\* Overview.jsx, ShotZoneMap: getColor(pct) and ZoneCell
ZoneMapColor(pct) ==
    IF ~Truthy(pct) THEN "border"
    ELSE IF Val(pct) >= 550 THEN "green"
    ELSE IF Val(pct) >= 450 THEN "yellow"
    ELSE IF Val(pct) >= 350 THEN "orange"
    ELSE "red"

ZoneCell(zs, name) ==
    LET z == getZone(zs, name)
    IN  [pct |-> z.pct, attempts |-> z.attempts,
         text |-> PctText(z.pct), color |-> ZoneMapColor(z.pct),
         sub |-> IF z.attempts > 0 THEN "att" ELSE "no data"]

ShotZoneMap(zs) ==
    IF Len(zs) = 0 THEN Null ELSE {[name \in ZoneNames |-> ZoneCell(zs, name)]}

\* The minimum sample of the weakest zone: z.attempts > 10
MIN_SAMPLE == 10

\* [...s].sort(cmp)[0] for a stable sort by descending key (keys[i] is the key
\* of s[i]): the earliest element whose key no other element exceeds;
\* undefined for an empty array
FirstByDesc(s, keys) ==
    IF Len(s) = 0 THEN {}
    ELSE {s[CHOOSE i \in 1..Len(s) :
                /\ \A j \in 1..Len(s) : keys[j] <= keys[i]
                /\ \A j \in 1..(i - 1) : keys[j] < keys[i]]}

ZoneDiff(z) == getDiff(z.pct, z.shot_zone_basic)

\* The last zone of the response
LastZone(zs) == IF Len(zs) = 0 THEN {} ELSE {zs[Len(zs)]}

\* const best = [...zones].filter(z => z.pct).sort((a, b) => diff(b) - diff(a))[0]
BestZone(zs) ==
    LET kept == SelectSeq(zs, LAMBDA z : Truthy(z.pct))
    IN  FirstByDesc(kept, [i \in 1..Len(kept) |-> ZoneDiff(kept[i])])

\* const worst = [...zones].filter(z => z.pct && z.attempts > 10)
\*                         .sort((a, b) => diff(a) - diff(b))[0]
WorstZone(zs) ==
    LET kept == SelectSeq(zs, LAMBDA z : Truthy(z.pct) /\ z.attempts > MIN_SAMPLE)
    IN  FirstByDesc(kept, [i \in 1..Len(kept) |-> 0 - ZoneDiff(kept[i])])

\* The key insight panel: nothing without a best zone; the weakest card only
\* with a worst zone
KeyInsight(zs) ==
    LET best == BestZone(zs)
        worst == WorstZone(zs)
    IN  IF best = {} THEN [shown |-> FALSE, best |-> {}, worst |-> {}]
        ELSE [shown |-> TRUE, best |-> best, worst |-> worst]

\* What ShotChart returns for its state: the skeleton, the empty message, or
\* the chart with the selected view (court or table) and the key insight
ShotChartRender(zs, loading, v) ==
    IF loading THEN
        [screen |-> "skeleton", table |-> {}, court |-> {},
         key |-> [shown |-> FALSE, best |-> {}, worst |-> {}]]
    ELSE IF Len(zs) = 0 THEN
        [screen |-> "No shot data available for this season", table |-> {},
         court |-> {}, key |-> [shown |-> FALSE, best |-> {}, worst |-> {}]]
    ELSE
        [screen |-> "chart",
         table |-> IF v = "table" THEN {ZoneTable(zs)} ELSE {},
         court |-> IF v = "court" THEN {CourtDiagram(zs)} ELSE {},
         key |-> KeyInsight(zs)]

\* Responses of the shot-chart endpoint.  One-zone responses cover every
\* attempts/makes pair up to MaxAttempts; two-zone responses take their rows
\* from PairSamples.
PairSamples == {<<0, 0>>, <<3, 0>>, <<3, 2>>, <<12, 0>>, <<12, 3>>, <<20, 12>>, <<20, 18>>}

OneZone ==
    {<<ZoneRec(n, a, m)>> : n \in ZoneNames, a \in 0..MaxAttempts, m \in 0..MaxAttempts}
TwoZones ==
    {<<ZoneRec(n1, x[1], x[2]), ZoneRec(n2, y[1], y[2])>> :
        n1 \in ZoneNames, n2 \in ZoneNames, x \in PairSamples, y \in PairSamples}

ZoneInputs ==
    {<<>>}
    \cup {zs \in OneZone : zs[1].makes <= zs[1].attempts}
    \cup {zs \in TwoZones : zs[1].shot_zone_basic # zs[2].shot_zone_basic}

ShotResponses ==
    {<<>>,
     <<ZoneRec("Restricted Area", 20, 12)>>,
     <<ZoneRec("Mid-Range", 12, 0), ZoneRec("Restricted Area", 20, 12)>>}

ShotInFlight == shotFetches[1] + shotFetches[2]

InsightIdle ==
    /\ question = "" /\ insight = {} /\ videos = <<>>
    /\ insightLoading = FALSE /\ error = {} /\ asks = {} /\ askCount = 0

OverviewIdle == gameLogs = <<>> /\ trends = {} /\ ovUI = {}

AvgIdle == avgUI = {}

\* Empty tables (CREATE TABLE IF NOT EXISTS on a fresh database)
DbIdle ==
    /\ rollingAverages = {} /\ playerInsights = {}
    /\ serial = [player_rolling_averages |-> 1, player_insights |-> 1]
    /\ dbResult = "none"

\* The questions a request can carry (question: q || null) are the cache keys
\* of the panel's player and season
CacheKeys == {{}, {"custom"}, {"why season"}, {"weaknesses"}, {"shot selection"}, {"improve"}}

\* An empty cache at service start
CacheIdle ==
    /\ now = 0
    /\ cache = [k \in CacheKeys |-> {}]
    /\ generating = {}
    /\ invocations = [k \in CacheKeys |-> 0]
    /\ calls = {}

\* Compare mounted: no player selected
CompareIdle ==
    /\ playerA = NoPlayer /\ playerB = NoPlayer
    /\ statsA = {} /\ statsB = {}
    /\ cmpInsight = {} /\ loadingInsight = FALSE
    /\ statsFetches = {} /\ insightFetches = {}
    /\ cmpOutcome = "none"

\* App mounted: no game logs, no rolling averages, the 10-game window
RollIdle ==
    /\ store = <<>> /\ rollResult = {}
    /\ rollWindow = 10 /\ rolling = <<>>
    /\ rollFetches = {} /\ rollSettled = {}
    /\ appPlayer = NoPlayer /\ appLoading = FALSE /\ activeTab = "overview"
    /\ loadFetches = {} /\ loadSettled = {}

RestIdle == AvgIdle /\ DbIdle /\ CacheIdle /\ CompareIdle /\ RollIdle

ShotIdle ==
    /\ scPlayer = NoPlayer /\ zones = <<>> /\ shotLoading = FALSE /\ view = "court"
    /\ shotFetches = [p \in Players |-> 0] /\ shotOutcome = "none"
    /\ shotUI = ShotChartRender(<<>>, FALSE, "court")

\* ShotChart mounted without a player
InitShot == ShotIdle /\ InsightIdle /\ OverviewIdle /\ RestIdle

\* The player prop changes: useEffect(() => { if (!player) return;
\* setLoading(true); apiFetch(...)... }, [player, season])
SetPlayer(p) ==
    /\ p # scPlayer
    /\ scPlayer' = p
    /\ IF p = NoPlayer
       THEN UNCHANGED <<shotLoading, shotFetches, shotUI>>
       ELSE /\ ShotInFlight < MaxShotFetches
            /\ shotLoading' = TRUE
            /\ shotFetches' = [shotFetches EXCEPT ![p] = @ + 1]
            /\ shotUI' = ShotChartRender(zones, TRUE, view)
    /\ UNCHANGED <<zones, view, shotOutcome>>
    /\ UNCHANGED <<insightVars, ovVars, restVars>>

\* .then(setZones) ... .finally(() => setLoading(false))
ShotResolve(p, data) ==
    /\ shotFetches[p] > 0
    /\ shotFetches' = [shotFetches EXCEPT ![p] = @ - 1]
    /\ zones' = data
    /\ shotLoading' = FALSE
    /\ shotOutcome' = "ok"
    /\ shotUI' = ShotChartRender(data, FALSE, view)
    /\ UNCHANGED <<scPlayer, view>>
    /\ UNCHANGED <<insightVars, ovVars, restVars>>

\* .catch(() => {}) ... .finally(() => setLoading(false))
ShotReject(p) ==
    /\ shotFetches[p] > 0
    /\ shotFetches' = [shotFetches EXCEPT ![p] = @ - 1]
    /\ shotLoading' = FALSE
    /\ shotOutcome' = "failed"
    /\ shotUI' = ShotChartRender(zones, FALSE, view)
    /\ UNCHANGED <<scPlayer, zones, view>>
    /\ UNCHANGED <<insightVars, ovVars, restVars>>

\* The court/table toggle: onClick={() => setView(v.id)}
SetView(v) ==
    /\ v # view
    /\ shotUI.screen = "chart"
    /\ view' = v
    /\ shotUI' = ShotChartRender(zones, shotLoading, v)
    /\ UNCHANGED <<scPlayer, zones, shotLoading, shotFetches, shotOutcome>>
    /\ UNCHANGED <<insightVars, ovVars, restVars>>

NextShot ==
    \/ \E p \in Players \cup {NoPlayer} : SetPlayer(p)
    \/ \E p \in Players, data \in ShotResponses : ShotResolve(p, data)
    \/ \E p \in Players : ShotReject(p)
    \/ \E v \in {"court", "table"} : SetView(v)

\* The life cycle of ShotChart: players selected, fetches settling in any order
SpecShot == InitShot /\ [][NextShot]_vars

\* ShotChart mounted with a player, its fetch in flight and answered by any
\* response of ZoneInputs
InitZone ==
    /\ scPlayer = 1 /\ zones = <<>> /\ shotLoading = TRUE /\ view = "court"
    /\ shotFetches = [p \in Players |-> IF p = 1 THEN 1 ELSE 0]
    /\ shotOutcome = "none"
    /\ shotUI = ShotChartRender(<<>>, TRUE, "court")
    /\ InsightIdle /\ OverviewIdle /\ RestIdle

NextZone ==
    \/ \E data \in ZoneInputs : ShotResolve(1, data)
    \/ ShotReject(1)
    \/ \E v \in {"court", "table"} : SetView(v)

SpecZone == InitZone /\ [][NextZone]_vars

----------------------------------------------------------------------------
\* Claims about the shot chart

EmptyMessage == "No shot data available for this season"

\* C2: a failed collaborator call is surfaced to the user as an error state,
\* distinguishable from the 'no data' state: once the shot-data fetch has failed,
\* ShotChart shows neither the 'no shot data' message nor the unchanged chart.
C2_FailureSurfaced ==
    (shotOutcome = "failed" /\ ~shotLoading) =>
        shotUI.screen \notin {EmptyMessage, "chart"}

\* The rows and cells the chart is showing
ShownRows ==
    IF shotUI.table = {} THEN {} ELSE Range(Val(shotUI.table))
ShownCells ==
    IF shotUI.court = {} THEN {} ELSE {Val(shotUI.court)[n] : n \in Range(zoneOrder)}
MapCells ==
    IF shotUI.screen # "chart" \/ ShotZoneMap(zones) = {} THEN {}
    ELSE {Val(ShotZoneMap(zones))[n] : n \in ZoneNames}

\* C3: the zone views distinguish a zone with no data (pct = null) from a zone
\* shooting 0% (attempts > 0, makes = 0): the no-data placeholder and the no-data
\* colour are shown exactly for a null pct, in the table, on the court and in
\* the overview's zone map.
C3_ZeroIsNotNoData ==
    /\ \A r \in ShownRows :
          /\ (r.fg = "dash") <=> IsNull(r.pct)
          /\ (r.tier = "nodata") <=> IsNull(r.pct)
    /\ \A c \in ShownCells :
          /\ (c.text = "dash") <=> IsNull(c.pct)
          /\ (c.tier = "nodata") <=> IsNull(c.pct)
    /\ \A c \in MapCells :
          /\ (c.text = "dash") <=> IsNull(c.pct)
          /\ (c.color = "border") <=> IsNull(c.pct)

\* diff = pct - LeagueZoneBaseline[zone] when both are available, null otherwise
BaselineDiff(pct, zone) ==
    IF IsNull(pct) \/ zone \notin DOMAIN LEAGUE_AVG THEN Null
    ELSE Num(Val(pct) - LEAGUE_AVG[zone])

\* C4: for every zone, diff = pct - LeagueZoneBaseline[zone] when both are
\* available and null otherwise; a zone with 0 attempts has pct = null and
\* diff = null.
C4_DiffOrNull ==
    \A r \in ShownRows :
        /\ r.diff = BaselineDiff(r.pct, r.zone)
        /\ r.attempts = 0 => (IsNull(r.pct) /\ IsNull(r.diff))

\* The five tiers and their thresholds, on a diff in tenths
TierOf(diff) ==
    IF diff >= 80 THEN "elite"
    ELSE IF diff >= 30 THEN "above"
    ELSE IF diff >= -30 THEN "average"
    ELSE IF diff >= -80 THEN "below"
    ELSE "cold"

\* C5: every zone with a percentage and a league baseline is classified into
\* the tier of its diff: >= +8 elite, [+3, +8) above average, [-3, +3) average,
\* [-8, -3) below average, < -8 cold.
C5_FiveTiers ==
    /\ \A r \in ShownRows :
          ~IsNull(r.pct) => r.tier = TierOf(Val(BaselineDiff(r.pct, r.zone)))
    /\ \A n \in Range(zoneOrder) :
          shotUI.court # {} =>
              LET c == Val(shotUI.court)[n]
              IN  ~IsNull(c.pct) => c.tier = TierOf(Val(BaselineDiff(c.pct, n)))

TrueDiff(z) == Val(BaselineDiff(z.pct, z.shot_zone_basic))

\* C6: the strongest zone is the zone with the maximum diff among the zones with
\* attempts > 0 (a zone that made no shot included): it is shown whenever such a
\* zone exists, and no zone without attempts is ever selected.
C6_StrongestIsMax ==
    shotUI.screen = "chart" =>
        LET cand == {i \in 1..Len(zones) : zones[i].attempts > 0}
            best == shotUI.key.best
        IN  /\ cand # {} =>
                /\ best # {}
                /\ Val(best).attempts > 0
                /\ \A i \in cand : TrueDiff(zones[i]) <= TrueDiff(Val(best))
            /\ best # {} => Val(best).attempts > 0

\* C7: the weakest zone, when one is shown, has attempts > 10 and has the
\* minimum diff among the zones with attempts > 10.
C7_WeakestAboveSample ==
    shotUI.key.worst # {} =>
        LET worst == Val(shotUI.key.worst)
        IN  /\ worst.attempts > 10
            /\ \A i \in 1..Len(zones) :
                  zones[i].attempts > 10 => TrueDiff(worst) <= TrueDiff(zones[i])

----------------------------------------------------------------------------
\* InsightPanel (part_000): ask() and its triggers

\* The four quick-question buttons, and what the analyst can type
quickQuestions == {"why season", "weaknesses", "shot selection", "improve"}
TypedTexts == {"", "custom"}

\* body.question: q || null
BodyQuestion(q) == IF q = "" THEN {} ELSE {q}

ERROR_TEXT == "Failed to generate insight. Check your API keys."

\* const ask = async (q) => { ... } up to the first await: the four setters and
\* the POST /insights request
ask(q) ==
    /\ askCount < MaxAsks
    /\ askCount' = askCount + 1
    /\ insightLoading' = TRUE
    /\ insight' = {}
    /\ videos' = <<>>
    /\ error' = {}
    /\ asks' = asks \cup {[id |-> askCount + 1, question |-> BodyQuestion(q),
                           stage |-> "insight"]}

\* onChange={e => setQuestion(e.target.value)}
TypeQuestion(t) ==
    /\ t # question
    /\ question' = t
    /\ UNCHANGED <<insight, videos, insightLoading, error, asks, askCount>>
    /\ UNCHANGED <<shotVars, ovVars, restVars>>

\* onKeyDown={e => e.key === 'Enter' && ask(question)}
PressEnter ==
    /\ ask(question)
    /\ UNCHANGED question
    /\ UNCHANGED <<shotVars, ovVars, restVars>>

\* <button onClick={() => ask(question)} disabled={loading}>
ClickAnalyze ==
    /\ ~insightLoading
    /\ ask(question)
    /\ UNCHANGED question
    /\ UNCHANGED <<shotVars, ovVars, restVars>>

\* <button key={q} onClick={() => { setQuestion(q); ask(q) }}>
ClickQuick(q) ==
    /\ question' = q
    /\ ask(q)
    /\ UNCHANGED <<shotVars, ovVars, restVars>>

\* The POST /insights of call r answers: setInsight(data.insight); with
\* keywords the videos are fetched next, without them ask() ends
\* (finally: setLoading(false))
InsightResolve(r, withKeywords) ==
    /\ r \in asks /\ r.stage = "insight"
    /\ insight' = {[answers |-> r.question, ask |-> r.id]}
    /\ IF withKeywords
       THEN /\ asks' = (asks \ {r}) \cup {[r EXCEPT !.stage = "videos"]}
            /\ UNCHANGED insightLoading
       ELSE /\ asks' = asks \ {r}
            /\ insightLoading' = FALSE
    /\ UNCHANGED <<question, videos, error, askCount>>
    /\ UNCHANGED <<shotVars, ovVars, restVars>>

\* The POST /insights of call r fails: catch (e) { setError(...) } finally
InsightReject(r) ==
    /\ r \in asks /\ r.stage = "insight"
    /\ error' = {ERROR_TEXT}
    /\ insightLoading' = FALSE
    /\ asks' = asks \ {r}
    /\ UNCHANGED <<question, insight, videos, askCount>>
    /\ UNCHANGED <<shotVars, ovVars, restVars>>

\* The videos fetch of call r answers: setVideos(vids), then finally
VideosResolve(r) ==
    /\ r \in asks /\ r.stage = "videos"
    /\ videos' = <<[video_id |-> r.id]>>
    /\ insightLoading' = FALSE
    /\ asks' = asks \ {r}
    /\ UNCHANGED <<question, insight, error, askCount>>
    /\ UNCHANGED <<shotVars, ovVars, restVars>>

\* The videos fetch of call r fails: try { ... } catch {}, then finally
VideosReject(r) ==
    /\ r \in asks /\ r.stage = "videos"
    /\ insightLoading' = FALSE
    /\ asks' = asks \ {r}
    /\ UNCHANGED <<question, insight, videos, error, askCount>>
    /\ UNCHANGED <<shotVars, ovVars, restVars>>

InitInsight == InsightIdle /\ ShotIdle /\ OverviewIdle /\ RestIdle

NextInsight ==
    \/ \E t \in TypedTexts : TypeQuestion(t)
    \/ PressEnter
    \/ ClickAnalyze
    \/ \E q \in quickQuestions : ClickQuick(q)
    \/ \E r \in asks, k \in BOOLEAN : InsightResolve(r, k)
    \/ \E r \in asks : InsightReject(r)
    \/ \E r \in asks : VideosResolve(r)
    \/ \E r \in asks : VideosReject(r)

SpecInsight == InitInsight /\ [][NextInsight]_vars

\* C1: no interleaving of ask() (Analyze button, Enter key, quick-question
\* buttons) puts two generation requests for the same key (player, season,
\* question) in flight at the same time.
C1_OneGenerationPerKey ==
    \A r1 \in asks, r2 \in asks :
        (r1.stage = "insight" /\ r2.stage = "insight" /\ r1.question = r2.question)
            => r1 = r2

----------------------------------------------------------------------------
\* Overview (Overview.jsx) and the delta displays of App (part_000)

RECENT_FORM_N == 10    \* RecentForm: games.slice(0, 10)
SPARK_N == 20          \* sparkData: .slice(-20)
LOG_TABLE_N == 20      \* game log table: gameLogs.slice(0, 20)
TREND_N == 5           \* the trend badges: "PTS L5", /trends "Last 5 vs season average"

\* function TrendBadge({ label, delta }): nothing for a null delta, else the
\* arrow of delta > 0
TrendBadge(delta) ==
    IF IsNull(delta) THEN "hidden"
    ELSE IF Val(delta) > 0 THEN "up" ELSE "down"

\* {trends && (<TrendBadge label="PTS L5" delta={trends.pts_delta} /> ...)}
TrendBadges(tr) == IF tr = {} THEN "hidden" ELSE TrendBadge(Val(tr).pts_delta)

\* function StatCard({ ..., delta }): positive = delta > 0, shown when hasD
StatCard(delta) ==
    LET positive == ~IsNull(delta) /\ Val(delta) > 0
        hasD == ~IsNull(delta)
    IN  IF ~hasD THEN "hidden" ELSE IF positive THEN "up" ELSE "down"

\* trends?.pts_delta
PtsDelta(tr) == IF tr = {} THEN {} ELSE Val(tr).pts_delta

\* Overview's points StatBlock:
\* sub={`${trends?.pts_delta > 0 ? '▲' : '▼'} ${Math.abs(trends?.pts_delta || 0)} L5`}
StatBlockSub(tr) ==
    LET d == PtsDelta(tr)
    IN  IF ~IsNull(d) /\ Val(d) > 0 THEN "up" ELSE "down"

\* function RecentForm({ games }): const last10 = games.slice(0, 10)
RecentForm(games) == Slice(games, 0, RECENT_FORM_N)

\* const sparkData = [...gameLogs].reverse().slice(-20)
sparkData(logs) == SliceFrom(Reverse(logs), 0 - SPARK_N)

\* The game log table of App: gameLogs.slice(0, 20)
GameLogTable(logs) == Slice(logs, 0, LOG_TABLE_N)

\* What is rendered from gameLogs and trends: nothing without game logs
\* (if (!gameLogs?.length) return null; seasonAvg && ...), else the recent-form
\* strip, the spark series, the game log table and the three delta displays
OverviewRender(logs, tr) ==
    IF Len(logs) = 0 THEN {}
    ELSE {[recentForm |-> RecentForm(logs),
           sparkData |-> sparkData(logs),
           logTable |-> GameLogTable(logs),
           statBlock |-> StatBlockSub(tr),
           statCard |-> StatCard(PtsDelta(tr)),
           trendBadge |-> TrendBadges(tr)]}

\* Game-log responses: n games of distinct dates 1..n, oldest first, newest
\* first, or unsorted (newest first, rotated by one)
Game(d) == [game_date |-> d]
Ascending(n) == [i \in 1..n |-> Game(i)]
Descending(n) == [i \in 1..n |-> Game(n + 1 - i)]
Unsorted(n) == [i \in 1..n |-> Game(IF i = n THEN n ELSE n - i)]
LogInputs ==
    UNION {{Ascending(n), Descending(n), Unsorted(n)} : n \in 0..MaxGames}

\* Trend responses: null, or a snapshot whose pts_delta is null or a number
TrendInputs ==
    {{}} \cup {{[pts_delta |-> d]} : d \in {{}} \cup {{v} : v \in (0 - DeltaMax)..DeltaMax}}

\* The props Overview is given; nothing rendered yet
InitOverview ==
    /\ gameLogs \in LogInputs
    /\ trends \in TrendInputs
    /\ ovUI = {}
    /\ ShotIdle /\ InsightIdle /\ RestIdle

RenderOverview ==
    /\ ovUI = {}
    /\ ovUI' = OverviewRender(gameLogs, trends)
    /\ ovUI' # {}
    /\ UNCHANGED <<gameLogs, trends>>
    /\ UNCHANGED <<shotVars, insightVars, restVars>>

\* The parent passes new props: the old rendering is replaced
SetProps(logs, tr) ==
    /\ ovUI # {}
    /\ <<logs, tr>> # <<gameLogs, trends>>
    /\ gameLogs' = logs
    /\ trends' = tr
    /\ ovUI' = OverviewRender(logs, tr)
    /\ UNCHANGED <<shotVars, insightVars, restVars>>

NextOverview ==
    \/ RenderOverview
    \/ \E logs \in LogInputs, tr \in TrendInputs : SetProps(logs, tr)

SpecOverview == InitOverview /\ [][NextOverview]_vars

\* The games in chronological order (dates are distinct)
SortByDate(logs) ==
    [i \in 1..Len(logs) |->
        CHOOSE g \in Range(logs) :
            Cardinality({h \in Range(logs) : h.game_date < g.game_date}) = i - 1]

\* The most recent n games, chronological
MostRecent(logs, n) == SliceFrom(SortByDate(logs), 0 - n)

\* The recent set of the trend detector: the chronologically last TREND_N games
TrendWindow(logs) == MostRecent(logs, TREND_N)

\* C8: a delta is shown as favourable exactly when the player is outperforming
\* the season baseline, and TrendBadge, StatCard and the points StatBlock give
\* the same classification for every delta (positive, zero, negative, null).
C8_DeltaSignConsistent ==
    ovUI # {} =>
        LET u == Val(ovUI)
            d == PtsDelta(trends)
        IN  /\ u.trendBadge = u.statCard
            /\ u.statCard = u.statBlock
            /\ (u.statBlock = "up") <=> (~IsNull(d) /\ Val(d) > 0)

\* C9: the trend view and the recent-form strip use the same number of recent
\* games and show the same window of the game sequence.
C9_SameRecentWindow ==
    ovUI # {} =>
        LET u == Val(ovUI)
        IN  /\ Len(u.recentForm) = Len(TrendWindow(gameLogs))
            /\ Range(u.recentForm) = Range(TrendWindow(gameLogs))

\* C10: for every ordering of the supplied game logs, the spark series is the
\* most recent 20 games in chronological order, and the recent-form strip and
\* the game log table hold the most recent 10 and 20 games.
C10_OrderNeverAssumed ==
    ovUI # {} =>
        LET u == Val(ovUI)
        IN  /\ u.sparkData = MostRecent(gameLogs, SPARK_N)
            /\ Range(u.recentForm) = Range(MostRecent(gameLogs, RECENT_FORM_N))
            /\ Range(u.logTable) = Range(MostRecent(gameLogs, LOG_TABLE_N))

----------------------------------------------------------------------------
\* Season averages: Overview (Overview.jsx), App.seasonAvg (App.jsx) and
\* Compare.loadStats (Compare.jsx)
\*
\* A JavaScript number that comes out of a division is a fraction, NaN or
\* Infinity; a displayed value may also be the placeholder text.

MaxAvgGames == 3       \* game logs averaged: 0..MaxAvgGames games

Number(n, d) == [kind |-> "number", num |-> n, den |-> d]
NaN == [kind |-> "NaN", num |-> 0, den |-> 1]
Infinity == [kind |-> "Infinity", num |-> 1, den |-> 0]
Dash == [kind |-> "dash", num |-> 0, den |-> 1]

IsNumber(x) == x.kind = "number"

\* x / y of non-negative numbers: 0/0 is NaN, x/0 is Infinity
JsDiv(x, y) ==
    IF x.kind = "NaN" \/ y.kind = "NaN" THEN NaN
    ELSE IF y.kind = "Infinity" THEN (IF x.kind = "Infinity" THEN NaN ELSE Number(0, 1))
    ELSE IF x.kind = "Infinity" THEN Infinity
    ELSE IF y.num = 0 THEN (IF x.num = 0 THEN NaN ELSE Infinity)
    ELSE Number(x.num * y.den, x.den * y.num)

\* x > 0 (false for NaN)
GtZero(x) == x.kind = "Infinity" \/ (x.kind = "number" /\ x.num > 0)

\* x.toFixed(1) of a non-negative number, in tenths; "NaN" and "Infinity"
\* print as themselves.  A tie (x.x5) of a fraction with a denominator below
\* 20 is exact in binary and goes up.
ToFixed1(x) ==
    IF x.kind = "number" THEN Number((20 * x.num + x.den) \div (2 * x.den), 10)
    ELSE x

\* (g.f || 0)
OrZero(x) == IF Truthy(x) THEN Val(x) ELSE 0

\* logs.reduce((s, g) => s + (g.f || 0), 0)
RECURSIVE SumOrZero(_, _)
SumOrZero(logs, f) ==
    IF logs = <<>> THEN 0
    ELSE OrZero(Head(logs)[f]) + SumOrZero(Tail(logs), f)

\* logs.reduce(...) / logs.length
Average(logs, f) == JsDiv(Number(SumOrZero(logs, f), 1), Number(Len(logs), 1))

\* Overview: if (!gameLogs?.length) return null; ppg, apg, topg and
\* atr = topg > 0 ? (apg / topg).toFixed(1) : '-'
OverviewAverages(logs) ==
    IF Len(logs) = 0 THEN {}
    ELSE LET apg == Average(logs, "ast")
             topg == Average(logs, "tov")
         IN  {[pts |-> Average(logs, "pts"),
               ast |-> apg,
               tov |-> topg,
               atr |-> IF GtZero(topg) THEN ToFixed1(JsDiv(apg, topg)) ELSE Dash]}

\* App: const seasonAvg = gameLogs.length ? {pts: (...).toFixed(1), ...} : null
seasonAvg(logs) ==
    IF Len(logs) # 0
    THEN {[pts |-> ToFixed1(Average(logs, "pts")),
           ast |-> ToFixed1(Average(logs, "ast"))]}
    ELSE {}

\* Compare.loadStats: if (!logs.length) return (the stats stay as they were),
\* else setter({ppg: (...).toFixed(1), ...})
loadStats(logs, stats) ==
    IF Len(logs) = 0 THEN stats
    ELSE {[pts |-> ToFixed1(Average(logs, "pts")),
           ast |-> ToFixed1(Average(logs, "ast")),
           tov |-> ToFixed1(Average(logs, "tov"))]}

\* Game-log rows: a full line, a line without turnovers, a scoreless line
\* and a row whose statistics are all missing (null)
StatLines ==
    {[pts |-> {20}, ast |-> {6}, tov |-> {2}],
     [pts |-> {30}, ast |-> {4}, tov |-> {0}],
     [pts |-> {0},  ast |-> {0}, tov |-> {0}],
     [pts |-> {},   ast |-> {},  tov |-> {}]}

\* A game-log response, newest first
StatLog(lines) ==
    [i \in 1..Len(lines) |->
        [game_date |-> Len(lines) + 1 - i,
         pts |-> lines[i].pts, ast |-> lines[i].ast, tov |-> lines[i].tov]]

StatLogInputs ==
    {StatLog(lines) : lines \in UNION {[1..n -> StatLines] : n \in 0..MaxAvgGames}}

\* What the three components hold for the game logs
Averages(logs, stats) ==
    {[overview |-> OverviewAverages(logs),
      app |-> seasonAvg(logs),
      compare |-> loadStats(logs, stats)]}

\* The game logs have arrived; nothing computed yet
InitAvg ==
    /\ gameLogs \in StatLogInputs
    /\ trends = {} /\ ovUI = {}
    /\ avgUI = {}
    /\ ShotIdle /\ InsightIdle /\ DbIdle /\ CacheIdle /\ CompareIdle /\ RollIdle

\* The first render and the first loadStats
ComputeAverages ==
    /\ avgUI = {}
    /\ avgUI' = Averages(gameLogs, {})
    /\ UNCHANGED ovVars
    /\ UNCHANGED <<shotVars, insightVars, dbVars, cacheVars, cmpVars, rollVars>>

\* Other game logs arrive (another player or season)
NewLogs(logs) ==
    /\ avgUI # {}
    /\ logs # gameLogs
    /\ gameLogs' = logs
    /\ avgUI' = Averages(logs, Val(avgUI).compare)
    /\ UNCHANGED <<trends, ovUI>>
    /\ UNCHANGED <<shotVars, insightVars, dbVars, cacheVars, cmpVars, rollVars>>

NextAvg ==
    \/ ComputeAverages
    \/ \E logs \in StatLogInputs : NewLogs(logs)

SpecAvg == InitAvg /\ [][NextAvg]_vars

\* The games of the log that have a value for f, and their mean (null when
\* there is none)
Present(logs, f) == {i \in 1..Len(logs) : logs[i][f] # {}}

RECURSIVE SumPresent(_, _)
SumPresent(logs, f) ==
    IF logs = <<>> THEN 0
    ELSE (IF Head(logs)[f] = {} THEN 0 ELSE Val(Head(logs)[f]))
         + SumPresent(Tail(logs), f)

MeanOfPresent(logs, f) ==
    IF Present(logs, f) = {} THEN {}
    ELSE {Number(SumPresent(logs, f), Cardinality(Present(logs, f)))}

\* A computed average is the mean m (an optional fraction)
IsMean(x, m) ==
    /\ m # {}
    /\ x.kind = "number"
    /\ x.num * Val(m).den = Val(m).num * x.den

\* The same after toFixed(1)
IsMeanFixed1(x, m) == m # {} /\ x = ToFixed1(Val(m))

\* C11: every average computed over the game logs is the mean over the games
\* that have the field (a game without it is in neither the sum nor the
\* count), and null when no game has it
C11_MissingIsNotZero ==
    avgUI # {} =>
        LET ui == Val(avgUI) IN
        /\ \A u \in ui.overview : \A f \in {"pts", "ast", "tov"} :
               IsMean(u[f], MeanOfPresent(gameLogs, f))
        /\ \A u \in ui.app : \A f \in {"pts", "ast"} :
               IsMeanFixed1(u[f], MeanOfPresent(gameLogs, f))
        /\ Len(gameLogs) > 0 =>
               \A u \in ui.compare : \A f \in {"pts", "ast", "tov"} :
                   IsMeanFixed1(u[f], MeanOfPresent(gameLogs, f))

\* Every value the three components computed
Computed(ui) ==
    UNION {{u[f] : f \in DOMAIN u} : u \in ui.overview \cup ui.app \cup ui.compare}

\* C12: no average or ratio comes out of a division by zero: every computed
\* value is a number or the placeholder, never NaN or Infinity; without game
\* logs Overview and App compute nothing (null), and when no turnover was
\* counted the assist/turnover ratio is the placeholder
C12_NoDivisionByZero ==
    avgUI # {} =>
        LET ui == Val(avgUI) IN
        /\ \A x \in Computed(ui) : x.kind \in {"number", "dash"} /\ x.den # 0
        /\ Len(gameLogs) = 0 => ui.overview = {} /\ ui.app = {}
        /\ \A u \in ui.overview :
               SumOrZero(gameLogs, "tov") = 0 => u.atr = Dash

\* Reached: averages over game logs with assists whose turnovers are zero in
\* one game and missing in another
C12_Witness ==
    /\ avgUI # {}
    /\ Len(gameLogs) > 1
    /\ SumOrZero(gameLogs, "ast") > 0
    /\ \E i, j \in 1..Len(gameLogs) : gameLogs[i].tov = {0} /\ gameLogs[j].tov = {}
    /\ \A i \in 1..Len(gameLogs) : gameLogs[i].tov \in {{}, {0}}
    /\ \A u \in Val(avgUI).overview : u.atr = Dash

----------------------------------------------------------------------------
\* Persisted state (schema.sql): player_rolling_averages and player_insights
\*
\* Zone statistics are not materialised: shot_chart holds one row per shot.

MaxRows == 2           \* rows inserted into each table

WindowSizes == {5, 10, 20}     \* window_size: 5, 10, or 20 game rolling window
GameDates == {1, 2}
Season == "2024-25"
InsightTypes == {"season_summary", "trend"}

\* UNIQUE(player_id, game_date, window_size)
RollingKey(row) == <<row.player_id, row.game_date, row.window_size>>

\* The natural key of a cache entry: player, season and insight fingerprint
InsightKey(row) == <<row.player_id, row.season, row.insight_type>>

\* INSERT INTO player_rolling_averages: id is the next value of the sequence
\* (taken even when the insert fails); a row with the same player_id,
\* game_date and window_size is a unique violation and nothing is stored
InsertRollingAverage(p, d, w, avg) ==
    /\ serial.player_rolling_averages <= MaxRows
    /\ LET row == [id |-> serial.player_rolling_averages, player_id |-> p,
                   game_date |-> d, season |-> Season, window_size |-> w,
                   pts_avg |-> avg]
       IN  IF \E old \in rollingAverages : RollingKey(old) = RollingKey(row)
           THEN /\ dbResult' = "unique_violation"
                /\ UNCHANGED rollingAverages
           ELSE /\ dbResult' = "inserted"
                /\ rollingAverages' = rollingAverages \cup {row}
    /\ serial' = [serial EXCEPT !.player_rolling_averages = @ + 1]
    /\ UNCHANGED playerInsights
    /\ UNCHANGED <<shotVars, insightVars, ovVars, avgVars, cacheVars, cmpVars, rollVars>>

\* INSERT INTO player_insights: the table has no constraint but its primary
\* key id, so every insert stores a row
InsertInsight(p, type, text) ==
    /\ serial.player_insights <= MaxRows
    /\ playerInsights' = playerInsights \cup
           {[id |-> serial.player_insights, player_id |-> p, season |-> Season,
             insight_type |-> type, insight_text |-> text]}
    /\ dbResult' = "inserted"
    /\ serial' = [serial EXCEPT !.player_insights = @ + 1]
    /\ UNCHANGED rollingAverages
    /\ UNCHANGED <<shotVars, insightVars, ovVars, avgVars, cacheVars, cmpVars, rollVars>>

InitDb ==
    /\ DbIdle /\ ShotIdle /\ InsightIdle /\ OverviewIdle
    /\ AvgIdle /\ CacheIdle /\ CompareIdle /\ RollIdle

NextDb ==
    \/ \E p \in Players, d \in GameDates, w \in WindowSizes, avg \in {{}, {20}} :
           InsertRollingAverage(p, d, w, avg)
    \/ \E p \in Players, type \in InsightTypes, text \in {"first", "regenerated"} :
           InsertInsight(p, type, text)

SpecDb == InitDb /\ [][NextDb]_vars

\* C13: one row per natural key: no two rolling-average rows share (player,
\* game_date, window_size) and no two insight rows share (player, season,
\* insight fingerprint), so that a regenerated insight has replaced the row
\* of its key
C13_OneRowPerKey ==
    /\ \A a, b \in rollingAverages : RollingKey(a) = RollingKey(b) => a = b
    /\ \A a, b \in playerInsights : InsightKey(a) = InsightKey(b) => a = b

----------------------------------------------------------------------------
\* InsightCache: get_or_generate behind POST /insights, called by
\* InsightPanel.ask

TTL_HOURS == 24        \* expires_at: CURRENT_TIMESTAMP + INTERVAL '24 hours'
TickHours == 12        \* the clock advances in steps of TickHours
MaxNow == 36           \* the clock stops at MaxNow
MaxCalls == 2          \* requests the panel sends to the cache in one run

\* A CachedInsight generated at time t by the n-th invocation for its key
CachedInsight(n, t) ==
    [text |-> n, generated_at |-> t, expires_at |-> t + TTL_HOURS]

\* Caches that treat every entry as expired, and as never expiring
Refetch(e, t) == FALSE
Keep(e, t) == e # {}

\* A cache entry (if any) that has not expired at time t
Fresh(e, t) == e # {} /\ t < Val(e).expires_at

Received == {c.id : c \in calls}

Call(r, state, text) ==
    [id |-> r.id, key |-> r.question, at |-> now, state |-> state, text |-> text]

\* The request of ask r arrives: get_or_generate(key, ttl, generator).  A
\* non-expired entry is returned; otherwise the call awaits the generation of
\* its key, invoking the generator unless a generation is already in flight
GetOrGenerate(r) ==
    /\ r \in asks /\ r.stage = "insight" /\ r.id \notin Received
    /\ LET k == r.question IN
       IF Fresh(cache[k], now)
       THEN /\ calls' = calls \cup {Call(r, "hit", {Val(cache[k]).text})}
            /\ UNCHANGED <<generating, invocations>>
       ELSE /\ calls' = calls \cup {Call(r, "waiting", {})}
            /\ IF k \in generating
               THEN UNCHANGED <<generating, invocations>>
               ELSE /\ generating' = generating \cup {k}
                    /\ invocations' = [invocations EXCEPT ![k] = @ + 1]
    /\ UNCHANGED <<now, cache>>
    /\ UNCHANGED <<shotVars, insightVars, ovVars, avgVars, dbVars, cmpVars, rollVars>>

\* The generator returns: the result is stored with expires_at = now + ttl
\* (over the expired entry, if any) and handed to every waiting call
GenerateOk(k) ==
    /\ k \in generating
    /\ generating' = generating \ {k}
    /\ cache' = [cache EXCEPT ![k] = {CachedInsight(invocations[k], now)}]
    /\ calls' = {IF c.key = k /\ c.state = "waiting"
                 THEN [c EXCEPT !.state = "generated", !.text = {invocations[k]}]
                 ELSE c : c \in calls}
    /\ UNCHANGED <<now, invocations>>
    /\ UNCHANGED <<shotVars, insightVars, ovVars, avgVars, dbVars, cmpVars, rollVars>>

\* The generator fails: nothing is stored, the entry of the key (if any)
\* stays, and every waiting call ends in GenerationFailed
GenerateFail(k) ==
    /\ k \in generating
    /\ generating' = generating \ {k}
    /\ calls' = {IF c.key = k /\ c.state = "waiting"
                 THEN [c EXCEPT !.state = "GenerationFailed"]
                 ELSE c : c \in calls}
    /\ UNCHANGED <<now, cache, invocations>>
    /\ UNCHANGED <<shotVars, insightVars, ovVars, avgVars, dbVars, cmpVars, rollVars>>

\* Time passes
Tick ==
    /\ now + TickHours <= MaxNow
    /\ now' = now + TickHours
    /\ UNCHANGED <<cache, generating, invocations, calls>>
    /\ UNCHANGED <<shotVars, insightVars, ovVars, avgVars, dbVars, cmpVars, rollVars>>

\* The response of a call that returned an insight reaches the panel
Respond(r) ==
    /\ \E c \in calls : c.id = r.id /\ c.state \in {"hit", "generated"}
    /\ InsightResolve(r, FALSE)

\* The error response of a failed call reaches the panel
RespondFailed(r) ==
    /\ \E c \in calls : c.id = r.id /\ c.state = "GenerationFailed"
    /\ InsightReject(r)

InitCache == InitInsight

NextCache ==
    \/ \E t \in TypedTexts : TypeQuestion(t)
    \/ askCount < MaxCalls /\ PressEnter
    \/ askCount < MaxCalls /\ ClickAnalyze
    \/ \E r \in asks : GetOrGenerate(r)
    \/ \E k \in generating : GenerateOk(k)
    \/ \E k \in generating : GenerateFail(k)
    \/ Tick
    \/ \E r \in asks : Respond(r)
    \/ \E r \in asks : RespondFailed(r)

SpecCache == InitCache /\ [][NextCache]_vars

\* The calls a step adds, and whether key k holds an entry that is still valid
\* (expired) at the present time
Arriving == {c \in calls' : c.id \notin Received}
Valid(k) == cache[k] # {} /\ now < Val(cache[k]).expires_at
Expired(k) == cache[k] # {} /\ now >= Val(cache[k]).expires_at

\* C14: the generator is invoked for a key only when the key has no entry or
\* an expired one, and a call that finds a non-expired entry returns that
\* entry without an invocation
C14_HitWithoutGenerator ==
    [][/\ \A k \in CacheKeys : invocations'[k] # invocations[k] => ~Valid(k)
       /\ \A c \in Arriving :
              Valid(c.key) => /\ c.state = "hit"
                              /\ c.text = {Val(cache[c.key]).text}
                              /\ invocations' = invocations
                              /\ generating' = generating]_vars

\* Reached: a call was answered from the cache after the one generation of
\* its key
C14_Witness ==
    \E c \in calls : c.state = "hit" /\ invocations[c.key] = 1 /\ c.text = {1}

\* C15: no call is answered from an entry past its expires_at; a call that
\* finds an expired entry leads to one invocation of the generator (none if
\* the regeneration is already in flight); an entry is stored with
\* generated_at = now and expires_at = now + 24 hours
C15_ExpiredRegenerated ==
    [][/\ \A c \in Arriving : c.state = "hit" => Valid(c.key)
       /\ \A c \in Arriving :
              Expired(c.key) =>
                  /\ c.state = "waiting"
                  /\ c.key \in generating'
                  /\ invocations'[c.key] =
                         invocations[c.key] + (IF c.key \in generating THEN 0 ELSE 1)
       /\ \A k \in CacheKeys :
              cache'[k] # cache[k] =>
                  /\ cache'[k] # {}
                  /\ Val(cache'[k]).generated_at = now
                  /\ Val(cache'[k]).expires_at = now + TTL_HOURS]_vars

\* Reached: the entry of a key expired and a later call had it regenerated
C15_Witness ==
    \E c1, c2 \in calls :
        /\ c1.key = c2.key
        /\ c1.state = "generated" /\ c1.text = {1}
        /\ c2.state = "generated" /\ c2.text = {2}
        /\ c2.at >= c1.at + TTL_HOURS
        /\ cache[c2.key] # {} /\ Val(cache[c2.key]).text = 2

----------------------------------------------------------------------------
\* Compare (Compare.jsx): two player slots, their season stats and the AI
\* comparison

\* The game logs of player p as the game-logs endpoint may return them: none,
\* or one game
PlayerLogs(p) ==
    {<<>>, StatLog(<<[pts |-> {10 * p}, ast |-> {p}, tov |-> {1}]>>)}

\* PlayerSearch onSelect(p) for slot A or B (p is NoPlayer when the input is
\* cleared): setPlayerA(p), then the effect: if (playerA) loadStats(playerA,
\* setStatsA) else setStatsA(null)
SelectPlayer(slot, p) ==
    /\ p # (IF slot = "A" THEN playerA ELSE playerB)
    /\ IF slot = "A"
       THEN /\ playerA' = p
            /\ statsA' = IF p = NoPlayer THEN {} ELSE statsA
            /\ UNCHANGED <<playerB, statsB>>
       ELSE /\ playerB' = p
            /\ statsB' = IF p = NoPlayer THEN {} ELSE statsB
            /\ UNCHANGED <<playerA, statsA>>
    /\ statsFetches' = IF p = NoPlayer THEN statsFetches
                       ELSE statsFetches \cup {[slot |-> slot, player |-> p]}
    /\ UNCHANGED <<cmpInsight, loadingInsight, insightFetches, cmpOutcome>>
    /\ UNCHANGED <<shotVars, insightVars, ovVars, avgVars, dbVars, cacheVars, rollVars>>

\* The game logs of a loadStats call arrive: if (!logs.length) return;
\* setter({...})
StatsResolve(f, logs) ==
    /\ f \in statsFetches
    /\ statsFetches' = statsFetches \ {f}
    /\ IF f.slot = "A"
       THEN statsA' = loadStats(logs, statsA) /\ UNCHANGED statsB
       ELSE statsB' = loadStats(logs, statsB) /\ UNCHANGED statsA
    /\ UNCHANGED <<playerA, playerB, cmpInsight, loadingInsight, insightFetches, cmpOutcome>>
    /\ UNCHANGED <<shotVars, insightVars, ovVars, avgVars, dbVars, cacheVars, rollVars>>

\* The game-logs request of a loadStats call fails: catch {}
StatsReject(f) ==
    /\ f \in statsFetches
    /\ statsFetches' = statsFetches \ {f}
    /\ UNCHANGED <<playerA, playerB, statsA, statsB, cmpInsight, loadingInsight,
                   insightFetches, cmpOutcome>>
    /\ UNCHANGED <<shotVars, insightVars, ovVars, avgVars, dbVars, cacheVars, rollVars>>

\* The AI comparison button is rendered with the stats (statsA && statsB) and
\* is disabled while loadingInsight
ButtonEnabled == statsA # {} /\ statsB # {} /\ ~loadingInsight

\* Click on the AI comparison button: generateInsight up to its await
generateInsight ==
    /\ ButtonEnabled
    /\ playerA # NoPlayer /\ playerB # NoPlayer
    /\ loadingInsight' = TRUE
    /\ cmpInsight' = {}
    /\ insightFetches' = insightFetches \cup {[a |-> playerA, b |-> playerB]}
    /\ cmpOutcome' = "pending"
    /\ UNCHANGED <<playerA, playerB, statsA, statsB, statsFetches>>
    /\ UNCHANGED <<shotVars, insightVars, ovVars, avgVars, dbVars, cacheVars, rollVars>>

\* POST /insights answers: setInsight(data.insight); setLoadingInsight(false)
CompareInsightResolve(f) ==
    /\ f \in insightFetches
    /\ insightFetches' = insightFetches \ {f}
    /\ cmpInsight' = {f}
    /\ loadingInsight' = FALSE
    /\ cmpOutcome' = "ok"
    /\ UNCHANGED <<playerA, playerB, statsA, statsB, statsFetches>>
    /\ UNCHANGED <<shotVars, insightVars, ovVars, avgVars, dbVars, cacheVars, rollVars>>

\* POST /insights fails (the generation failed): catch {};
\* setLoadingInsight(false)
CompareInsightReject(f) ==
    /\ f \in insightFetches
    /\ insightFetches' = insightFetches \ {f}
    /\ loadingInsight' = FALSE
    /\ cmpOutcome' = "failed"
    /\ UNCHANGED <<playerA, playerB, statsA, statsB, cmpInsight, statsFetches>>
    /\ UNCHANGED <<shotVars, insightVars, ovVars, avgVars, dbVars, cacheVars, rollVars>>

\* What the AI comparison section shows: the button, and the insight when
\* there is one; the component has no error state and renders no error
CompareInsightUI ==
    IF statsA # {} /\ statsB # {}
    THEN [button |-> IF loadingInsight THEN "analyzing" ELSE "ready",
          insight |-> cmpInsight,
          error |-> {}]
    ELSE [button |-> "hidden", insight |-> {}, error |-> {}]

InitCompare ==
    /\ CompareIdle /\ ShotIdle /\ InsightIdle /\ OverviewIdle
    /\ AvgIdle /\ DbIdle /\ CacheIdle /\ RollIdle

NextCompare ==
    \/ \E slot \in {"A", "B"}, p \in Players \cup {NoPlayer} : SelectPlayer(slot, p)
    \/ \E f \in statsFetches : \E logs \in PlayerLogs(f.player) : StatsResolve(f, logs)
    \/ \E f \in statsFetches : StatsReject(f)
    \/ generateInsight
    \/ \E f \in insightFetches : CompareInsightResolve(f)
    \/ \E f \in insightFetches : CompareInsightReject(f)

SpecCompare == InitCompare /\ [][NextCompare]_vars

\* C16 (the caller's side): after a failed generation the caller shows the
\* error and is back in a state from which the request can be issued again
C16_FailureShownRetry ==
    cmpOutcome = "failed" =>
        /\ ~loadingInsight
        /\ (statsA # {} /\ statsB # {}) =>
               /\ CompareInsightUI.button = "ready"
               /\ CompareInsightUI.error # {}

----------------------------------------------------------------------------
\* InsightPanel with a generation collaborator that may never answer
\*
\* apiFetch is fetch(`${API}${path}`, opts) without an AbortController signal
\* or a timer: only an answer of the server ends the await in ask().

\* The collaborator will never answer the request of call r
NoAnswer(r) ==
    /\ r \in asks /\ r.stage = "insight"
    /\ asks' = (asks \ {r}) \cup {[r EXCEPT !.stage = "unanswered"]}
    /\ UNCHANGED <<question, insight, videos, insightLoading, error, askCount>>
    /\ UNCHANGED <<shotVars, ovVars, restVars>>

\* A request that is answered reaches ask(), which runs to its end
Settle ==
    \/ \E r \in asks, k \in BOOLEAN : InsightResolve(r, k)
    \/ \E r \in asks : InsightReject(r)
    \/ \E r \in asks : VideosResolve(r)
    \/ \E r \in asks : VideosReject(r)

NextInsightLive ==
    \/ NextInsight
    \/ \E r \in asks : NoAnswer(r)

\* Every answer that arrives is handled
SpecInsightLive ==
    InitInsight /\ [][NextInsightLive]_vars /\ WF_vars(Settle)

\* C17: every insight request eventually ends, and the panel's loading state
\* eventually becomes false, even if the collaborator never answers
C17_RequestsEnd ==
    /\ insightLoading ~> ~insightLoading
    /\ \A i \in 1..MaxAsks :
           (\E r \in asks : r.id = i) ~> ~(\E r \in asks : r.id = i)

----------------------------------------------------------------------------
\* Rolling averages: RollingAverageCalculator behind
\* GET /players/{id}/rolling-averages, and App's rolling chart state

MaxRollGames == 11     \* games of the player in the store: 0..MaxRollGames
MaxWindow == 3         \* windows an API client asks for: -1..MaxWindow, and 5/10/20

\* A game of the store: its date and the points (null when missing)
GameRecord(d, pts) == [game_date |-> d, pts |-> pts]

\* Points by date: 20, 30, 10, 40, 20, ...
ExamplePts(d) == <<20, 30, 10, 40>>[((d - 1) % 4) + 1]

\* The stores: n games of dates 1..n: oldest first with all points present,
\* newest first with every third game's points missing, or without any points
RollStores ==
    UNION {{[i \in 1..n |-> GameRecord(i, {ExamplePts(i)})],
            [i \in 1..n |-> GameRecord(n + 1 - i,
                                IF (n + 1 - i) % 3 = 0 THEN {} ELSE {ExamplePts(n + 1 - i)})],
            [i \in 1..n |-> GameRecord(i, {})]} : n \in 0..MaxRollGames}

WindowInputs == ((0 - 1)..MaxWindow) \cup WindowSizes

\* Normalisation to chronological ascending order (insertion sort by date)
RECURSIVE InsertByDate(_, _)
InsertByDate(s, g) ==
    IF s = <<>> THEN <<g>>
    ELSE IF g.game_date < Head(s).game_date THEN <<g>> \o s
    ELSE <<Head(s)>> \o InsertByDate(Tail(s), g)

RECURSIVE Chronological(_)
Chronological(games) ==
    IF games = <<>> THEN <<>>
    ELSE InsertByDate(Chronological(Tail(games)), Head(games))

\* Running totals over the first i games: the sum and the number of the
\* points that are present
RECURSIVE PtsTotal(_, _)
PtsTotal(s, i) ==
    IF i <= 0 THEN 0
    ELSE PtsTotal(s, i - 1) + (IF s[i].pts = {} THEN 0 ELSE Val(s[i].pts))

RECURSIVE PtsCount(_, _)
PtsCount(s, i) ==
    IF i <= 0 THEN 0
    ELSE PtsCount(s, i - 1) + (IF s[i].pts = {} THEN 0 ELSE 1)

\* The mean of the points over the W games ending at game i (null when none
\* of them has points)
WindowAvg(s, i, W) ==
    LET lo == Min(Max(i - W, 0), i)
        sum == PtsTotal(s, i) - PtsTotal(s, lo)
        cnt == PtsCount(s, i) - PtsCount(s, lo)
    IN  IF cnt = 0 THEN {} ELSE {Number(sum, cnt)}

\* The endpoint sends game_date as a timestamp
Timestamp(d) == [day |-> d, time |-> "T00:00:00"]

\* One RollingPoint per game that ends a full window
RollingPoints(games, W) ==
    LET s == Chronological(games)
        first == Max(W, 1)
    IN  [j \in 1..Max(Len(s) - first + 1, 0) |->
            [game_date |-> Timestamp(s[j + first - 1].game_date),
             pts_avg |-> WindowAvg(s, j + first - 1, W)]]

AnyWindow(W) == TRUE

ValidWindow(W) == W > 0

\* RollingAverageCalculator: InvalidWindow for W <= 0, else the points (none
\* when fewer than W games are supplied)
RollingAverageCalculator(games, W) ==
    IF ValidWindow(W)
    THEN [error |-> "none", points |-> RollingPoints(games, W)]
    ELSE [error |-> "InvalidWindow", points |-> <<>>]

\* The timestamp as it was sent
WholeDate(ts) == ts

\* r.game_date?.slice(0, 10): the first ten characters, the calendar date
DateSlice(ts) == [day |-> ts.day, time |-> ""]

\* The points newest first
NewestFirst(points) == Reverse(points)

\* roll.map(r => ({ ...r, game_date: r.game_date?.slice(0, 10) }))
TruncateDates(points) ==
    [j \in 1..Len(points) |-> [points[j] EXCEPT !.game_date = DateSlice(@)]]

AlwaysShown(r) == TRUE

\* {rolling.length > 0 && (...)}
ChartShown(r) == Len(r) > 0

\* The mini chart of the overview tab: "{rollWindow}-Game Rolling Average"
OverviewRollingChart ==
    IF ChartShown(rolling) THEN {[title |-> rollWindow, data |-> rolling]} ELSE {}

\* The games of player p in the GameLogStore: the dates of the store, with p
\* times its points
StoreOf(p) ==
    [i \in 1..Len(store) |->
        GameRecord(store[i].game_date,
                   IF store[i].pts = {} THEN {} ELSE {p * Val(store[i].pts)})]

\* GET /players/{id}/rolling-averages?window=w
RollingAverages(p, w) ==
    {[window |-> w, response |-> RollingAverageCalculator(StoreOf(p), w)]}

EndpointCall(w) == RollingAverages(1, w)

\* TrendDetector behind GET /players/{id}/trends

\* The newest game alone
LatestGame(games, L) == MostRecent(games, 1)

\* The recent set: the chronologically last L games, all games when there are
\* fewer than L
RecentSet(games, L) == MostRecent(games, L)

\* The mean of the points over a sequence of games (null when none has points)
PtsMean(s) == WindowAvg(s, Len(s), Len(s))

\* n / d rounded to one decimal place, in tenths
RoundTenths(n, d) ==
    IF n >= 0 THEN (20 * n + d) \div (2 * d)
    ELSE 0 - ((20 * (0 - n) + d) \div (2 * d))

\* recent - season, rounded (null when an average is null)
TrendDelta(recent, season) ==
    IF recent = {} \/ season = {} THEN {}
    ELSE {RoundTenths(Val(recent).num * Val(season).den
                          - Val(season).num * Val(recent).den,
                      Val(recent).den * Val(season).den)}

\* The TrendSnapshot of a season: recent - season for the tracked statistic
TrendDetector(games, L) ==
    [pts_delta |-> TrendDelta(PtsMean(RecentSet(games, L)),
                              PtsMean(Chronological(games)))]

\* GET /players/{id}/trends (recent_n = 5)
Trends(p) == {TrendDetector(StoreOf(p), TREND_N)}

\* GET /players/{id}/game-logs?last_n=30
LAST_N == 30
GameLogs(p) == Slice(StoreOf(p), 0, LAST_N)

\* The player has been loaded (loadPlayer) and the charts tab opened: App holds
\* the three answers, rolling for the initial window
InitRolling ==
    /\ store \in RollStores
    /\ rollWindow = 10
    /\ rollResult = EndpointCall(10)
    /\ rolling = TruncateDates(RollingAverageCalculator(store, 10).points)
    /\ rollFetches = {} /\ rollSettled = {}
    /\ appPlayer = 1 /\ appLoading = FALSE /\ activeTab = "charts"
    /\ loadFetches = {} /\ loadSettled = {1}
    /\ gameLogs = GameLogs(1) /\ trends = Trends(1) /\ ovUI = {}
    /\ ShotIdle /\ InsightIdle
    /\ AvgIdle /\ DbIdle /\ CacheIdle /\ CompareIdle

\* An API client calls the endpoint with window w
ApiCall(w) ==
    /\ rollResult # EndpointCall(w)
    /\ rollResult' = EndpointCall(w)
    /\ UNCHANGED <<store, rollWindow, rolling, rollFetches, rollSettled>>
    /\ UNCHANGED <<appPlayer, appLoading, activeTab, loadFetches, loadSettled>>
    /\ UNCHANGED <<shotVars, insightVars, ovVars, avgVars, dbVars, cacheVars, cmpVars>>

\* The buttons of the window selector: [5, 10, 20].map(w => <button ...>)
AnyButtons == {0, 5, 10, 20}

WindowButtons == {5, 10, 20}

\* The window selector is on screen: a player, not loading, the charts tab
SelectorShown == appPlayer # NoPlayer /\ ~appLoading /\ activeTab = "charts"

\* A window button is clicked: setRollWindow(w) and the request
SelectWindow(w) ==
    /\ SelectorShown
    /\ rollWindow' = w
    /\ rollFetches' = rollFetches \cup {[window |-> w, player |-> appPlayer]}
    /\ rollWindow' # rollWindow \/ rollFetches' # rollFetches
    /\ UNCHANGED <<store, rollResult, rolling, rollSettled>>
    /\ UNCHANGED <<appPlayer, appLoading, activeTab, loadFetches, loadSettled>>
    /\ UNCHANGED <<shotVars, insightVars, ovVars, avgVars, dbVars, cacheVars, cmpVars>>

\* The request of a click is answered: setRolling(data.map(...))
WindowResolve(f) ==
    /\ f \in rollFetches
    /\ rollFetches' = rollFetches \ {f}
    /\ rollResult' = RollingAverages(f.player, f.window)
    /\ Val(rollResult').response.error = "none"
    /\ rolling' = TruncateDates(Val(rollResult').response.points)
    /\ rollSettled' = {[window |-> f.window, player |-> f.player]}
    /\ UNCHANGED <<store, rollWindow>>
    /\ UNCHANGED <<appPlayer, appLoading, activeTab, loadFetches, loadSettled>>
    /\ UNCHANGED <<shotVars, insightVars, ovVars, avgVars, dbVars, cacheVars, cmpVars>>

\* The request of a click fails: the handler has no catch, the state stays
WindowReject(f) ==
    /\ f \in rollFetches
    /\ rollFetches' = rollFetches \ {f}
    /\ UNCHANGED <<store, rollResult, rollWindow, rolling, rollSettled>>
    /\ UNCHANGED <<appPlayer, appLoading, activeTab, loadFetches, loadSettled>>
    /\ UNCHANGED <<shotVars, insightVars, ovVars, avgVars, dbVars, cacheVars, cmpVars>>

NextRolling ==
    \/ \E w \in WindowInputs : ApiCall(w)
    \/ \E w \in WindowButtons : SelectWindow(w)
    \/ \E f \in rollFetches : WindowResolve(f)
    \/ \E f \in rollFetches : WindowReject(f)

SpecRolling == InitRolling /\ [][NextRolling]_vars

\* Two optional fractions are the same number
SameMean(a, b) ==
    \/ a = {} /\ b = {}
    \/ a # {} /\ b # {} /\ Val(a).num * Val(b).den = Val(b).num * Val(a).den

\* points is the rolling series of window W over the chronological games s:
\* one point per game index i >= W-1, in order, each the mean over [i-W+1, i]
IsRollingSeries(points, s, W) ==
    /\ Len(points) = Len(s) - W + 1
    /\ \A j \in 1..Len(points) :
           /\ points[j].game_date.day = s[j + W - 1].game_date
           /\ SameMean(points[j].pts_avg,
                       MeanOfPresent(SubSeq(s, j, j + W - 1), "pts"))

\* The window whose answer App's rolling state holds: the initial one, or
\* that of the last answered request
Shown == IF rollSettled = {} THEN {10} ELSE {st.window : st \in rollSettled}

\* C18: for N games and a window 1 <= W <= N the calculator returns N - W + 1
\* points, one per game index i >= W-1 in chronological order, each the mean
\* over games [i-W+1, i], and App's rolling state holds them in that order
C18_OnePointPerFullWindow ==
    LET s == SortByDate(store) IN
    /\ \A res \in rollResult :
           (res.window >= 1 /\ res.window <= Len(store)) =>
               /\ res.response.error = "none"
               /\ IsRollingSeries(res.response.points, s, res.window)
    /\ \A w \in Shown : w <= Len(store) => IsRollingSeries(rolling, s, w)

\* Reached: a window over games with and without points, and a chart series
\* of several points in App
C18_Witness ==
    /\ \E res \in rollResult :
           /\ res.window >= 2 /\ res.window < Len(store)
           /\ \E i, j \in 1..Len(store) : store[i].pts = {} /\ store[j].pts # {}
    /\ \E w \in Shown : w < Len(store) /\ Len(rolling) >= 2 /\ rollSettled # {}

\* C19: for W <= 0 the calculator fails with InvalidWindow and computes no
\* point (the window is not clamped to a valid one)
C19_InvalidWindow ==
    \A res \in rollResult :
        res.window <= 0 =>
            res.response.error = "InvalidWindow" /\ res.response.points = <<>>

\* Reached: the endpoint was called with a window <= 0 for a player with games
C19_Witness ==
    \E res \in rollResult : res.window <= 0 /\ Len(store) > 0

----------------------------------------------------------------------------
\* App: selecting a player (loadPlayer), the tabs and the window selector

MaxLoads == 2          \* requests of App in flight at once

\* The requests of App in flight
InFlight == Cardinality(loadFetches) + Cardinality(rollFetches)

\* const tabs = ['overview', 'charts', 'game log', 'ai insight']
tabs == {"overview", "charts", "game log", "ai insight"}

\* Seasons of fewer than TREND_N games and of more, oldest first, and a
\* season of TREND_N games newest first with points missing
AppStores ==
    {s \in RollStores :
        \/ /\ Len(s) \in {TREND_N - 1, TREND_N + 1}
           /\ \A i \in 1..Len(s) : s[i].game_date = i /\ s[i].pts # {}
        \/ /\ Len(s) = TREND_N
           /\ s[1].game_date = TREND_N /\ s[1].pts # {}}

\* const loadPlayer = async (p) => { ...: up to the await of the three requests
loadPlayer(p) ==
    /\ appPlayer' = p
    /\ appLoading' = TRUE
    /\ activeTab' = "overview"
    /\ loadFetches' = loadFetches \cup {[player |-> p, window |-> rollWindow]}
    /\ UNCHANGED <<store, rollResult, rollWindow, rolling, rollFetches, rollSettled,
                   loadSettled>>
    /\ UNCHANGED <<shotVars, insightVars, ovVars, avgVars, dbVars, cacheVars, cmpVars>>

\* The three requests of a call are answered: setGameLogs, setRolling,
\* setTrends, then setLoading(false)
LoadResolve(f) ==
    /\ f \in loadFetches
    /\ loadFetches' = loadFetches \ {f}
    /\ gameLogs' = GameLogs(f.player)
    /\ rollResult' = RollingAverages(f.player, f.window)
    /\ Val(rollResult').response.error = "none"
    /\ rolling' = TruncateDates(Val(rollResult').response.points)
    /\ trends' = Trends(f.player)
    /\ appLoading' = FALSE
    /\ rollSettled' = {[window |-> f.window, player |-> f.player]}
    /\ loadSettled' = {f.player}
    /\ UNCHANGED <<store, rollWindow, rollFetches, appPlayer, activeTab, ovUI>>
    /\ UNCHANGED <<shotVars, insightVars, avgVars, dbVars, cacheVars, cmpVars>>

\* One of the three requests fails: catch {}, then setLoading(false)
LoadReject(f) ==
    /\ f \in loadFetches
    /\ loadFetches' = loadFetches \ {f}
    /\ appLoading' = FALSE
    /\ UNCHANGED <<store, rollResult, rollWindow, rolling, rollFetches, rollSettled,
                   appPlayer, activeTab, loadSettled>>
    /\ UNCHANGED <<shotVars, insightVars, ovVars, avgVars, dbVars, cacheVars, cmpVars>>

\* A tab button is clicked: setActiveTab(tab)
SelectTab(tab) ==
    /\ appPlayer # NoPlayer
    /\ activeTab # tab
    /\ activeTab' = tab
    /\ UNCHANGED <<store, rollResult, rollWindow, rolling, rollFetches, rollSettled,
                   appPlayer, appLoading, loadFetches, loadSettled>>
    /\ UNCHANGED <<shotVars, insightVars, ovVars, avgVars, dbVars, cacheVars, cmpVars>>

\* App mounted: no player
InitApp ==
    /\ store \in AppStores
    /\ rollResult = {}
    /\ rollWindow = 10 /\ rolling = <<>>
    /\ rollFetches = {} /\ rollSettled = {}
    /\ appPlayer = NoPlayer /\ appLoading = FALSE /\ activeTab = "overview"
    /\ loadFetches = {} /\ loadSettled = {}
    /\ ShotIdle /\ InsightIdle /\ OverviewIdle
    /\ AvgIdle /\ DbIdle /\ CacheIdle /\ CompareIdle

NextApp ==
    \/ \E p \in Players : InFlight < MaxLoads /\ loadPlayer(p)
    \/ \E f \in loadFetches : LoadResolve(f)
    \/ \E f \in loadFetches : LoadReject(f)
    \/ \E tab \in tabs : SelectTab(tab)
    \/ \E w \in WindowButtons : InFlight < MaxLoads /\ SelectWindow(w)
    \/ \E f \in rollFetches : WindowResolve(f)
    \/ \E f \in rollFetches : WindowReject(f)

SpecApp == InitApp /\ [][NextApp]_vars

\* No request of App is in flight
AppQuiet == loadFetches = {} /\ rollFetches = {}

\* Some game of the sequence has points
HasPts(games) == \E i \in 1..Len(games) : games[i].pts # {}

\* C21: on a season of exactly L games, or of fewer than L games, the trend
\* detector takes all available games as the recent set and answers with a
\* snapshot of zero deltas (it does not fail); App holds that snapshot
C21_SparseSeasonZeroDeltas ==
    \A p \in loadSettled :
        Len(StoreOf(p)) <= TREND_N =>
            /\ RecentSet(StoreOf(p), TREND_N) = Chronological(StoreOf(p))
            /\ trends = {TrendDetector(StoreOf(p), TREND_N)}
            /\ \A t \in trends :
                   t.pts_delta = IF HasPts(StoreOf(p)) THEN {0} ELSE {}

\* Reached: a player of exactly L games, newest first and not all of them with
\* points, has been loaded, and the badge of the zero delta is on screen
C21_Witness ==
    /\ loadSettled # {}
    /\ Len(store) = TREND_N
    /\ store[1].game_date > store[2].game_date
    /\ \E i, j \in 1..Len(store) :
           /\ store[i].pts # {} /\ store[j].pts # {}
           /\ store[i].pts # store[j].pts
    /\ \E t \in trends : t.pts_delta = {0}
    /\ TrendBadges(trends) # "hidden"

\* C22: every rolling point in App's state has its game_date truncated to the
\* calendar date, after the player load and after every window change, and
\* truncating a truncated date leaves it unchanged
C22_DatesTruncated ==
    /\ \A j \in 1..Len(rolling) :
           /\ rolling[j].game_date.time = ""
           /\ DateSlice(rolling[j].game_date) = rolling[j].game_date
    /\ TruncateDates(rolling) = rolling
    /\ \A st \in rollSettled :
           LET sent == RollingAverageCalculator(StoreOf(st.player), st.window).points
           IN  /\ Len(rolling) = Len(sent)
               /\ \A j \in 1..Len(sent) :
                      /\ rolling[j].game_date.day = sent[j].game_date.day
                      /\ rolling[j].pts_avg = sent[j].pts_avg

\* Reached: after a load and a window change to 5, rolling holds the points of
\* a response whose dates were sent as timestamps
C22_Witness ==
    /\ loadSettled # {} /\ rollWindow = 5
    /\ \E st \in rollSettled : st.window = 5
    /\ Len(rolling) >= 1
    /\ \E res \in rollResult :
           /\ res.window = 5 /\ Len(res.response.points) >= 1
           /\ \A j \in 1..Len(res.response.points) :
                  res.response.points[j].game_date.time # ""

\* C23: in every reachable state of App rollWindow is one of 5, 10, 20, and
\* no rolling-averages request is issued with a window W < 1
C23_WindowOneOfThree ==
    /\ rollWindow \in {5, 10, 20}
    /\ \A f \in rollFetches \cup loadFetches : f.window \in {5, 10, 20} /\ f.window >= 1
    /\ \A st \in rollSettled : st.window >= 1

\* Reached: the 20-game window is selected, its request and the request of a
\* player load issued under the 5-game window are in flight
C23_Witness ==
    /\ rollWindow = 20
    /\ \E f \in rollFetches : f.window = 20
    /\ \E f \in loadFetches : f.window = 5

\* C24: once no request is in flight, the game logs, the rolling series and
\* the trends App displays all belong to the selected player: data of a
\* previously selected player is never shown under the new player's header
C24_DataOfSelectedPlayer ==
    (AppQuiet /\ appPlayer # NoPlayer) =>
        /\ \A p \in loadSettled : p = appPlayer
        /\ \A st \in rollSettled : st.player = appPlayer

\* C25: once no request is in flight, the rolling series App displays was
\* computed for the window shown as selected (rollWindow), so the window of
\* the chart titles matches the data
C25_SeriesOfSelectedWindow ==
    AppQuiet => \A st \in rollSettled : st.window = rollWindow

----------------------------------------------------------------------------
\* InsightPanel: what is displayed once several questions have been asked

\* C26: when several questions are asked and their responses arrive in any
\* order, once no request is in flight the displayed insight is the answer to
\* the most recently asked question
C26_LatestAnswerShown ==
    asks = {} => \A i \in insight : i.ask = askCount

\* C27: in every reachable state of InsightPanel loading is true whenever an
\* insight request is still in flight
C27_LoadingWhileInFlight ==
    (\E r \in asks : r.stage = "insight") => insightLoading

\* C28: in every reachable state of InsightPanel the error message and an
\* insight text are never both displayed
C28_ErrorOrInsight ==
    error # {} => insight = {}

----------------------------------------------------------------------------
\* Compare: whose stats are displayed

\* null, or the stats computed from the game logs of player p
StatsOf(p) ==
    {{}} \cup (IF p = NoPlayer THEN {}
               ELSE {loadStats(logs, {}) : logs \in PlayerLogs(p) \ {<<>>}})

\* C29: once no request is in flight, statsA (statsB) is null or was computed
\* from the game logs of the selected playerA (playerB)
C29_StatsOfSelectedPlayers ==
    statsFetches = {} => statsA \in StatsOf(playerA) /\ statsB \in StatsOf(playerB)

----------------------------------------------------------------------------
\* ShotChart: the two cards of the key insight

\* C30: whenever a weakest zone is shown, a strongest zone is shown as well and
\* the strongest zone's diff is greater than or equal to the weakest zone's
\* diff, for every set of zone stats
C30_StrongestNotBelowWeakest ==
    shotUI.key.worst # {} =>
        /\ shotUI.key.shown
        /\ shotUI.key.best # {}
        /\ ZoneDiff(Val(shotUI.key.best)) >= ZoneDiff(Val(shotUI.key.worst))
        /\ ~IsNull(Val(shotUI.key.best).pct) /\ ~IsNull(Val(shotUI.key.worst).pct)
        /\ TrueDiff(Val(shotUI.key.best)) >= TrueDiff(Val(shotUI.key.worst))

\* Reached: both cards are shown for two different zones, the strongest one
\* listed after the weakest one and below the minimum sample
C30_Witness ==
    /\ shotUI.screen = "chart"
    /\ shotUI.key.worst # {} /\ shotUI.key.best # {}
    /\ shotUI.key.best # shotUI.key.worst
    /\ Len(zones) = 2
    /\ Val(shotUI.key.best) = zones[2]
    /\ Val(shotUI.key.best).attempts <= MIN_SAMPLE
    /\ ZoneDiff(Val(shotUI.key.best)) > ZoneDiff(Val(shotUI.key.worst))
====
